---- MODULE Spec2Model ----
(***************************************************************************)
(* Model of the local-body election voting application (elections app):    *)
(* the location-selection and voting views, the voting form, the Candidate *)
(* and Vote model validation, and the storage constraints of the Vote and  *)
(* Voter tables.  Two browser sessions submit requests concurrently; an    *)
(* administrator edits candidates through the admin site; time passes.     *)
(***************************************************************************)
EXTENDS Bags, FiniteSets, Integers, Naturals, Sequences, TLC

(* ------------------------------------------------------------------ *)
(* Bounds of the model                                                 *)
(* ------------------------------------------------------------------ *)
MaxTime == 4
TickStep == 2
MaxEdited == 1
MaxVotes == 2
MaxProbeTime == 3

(* ------------------------------------------------------------------ *)
(* Identifiers and fixed rows                                          *)
(* ------------------------------------------------------------------ *)
NoId == 0

Sessions == {1, 2}

VillageIds == {1, 2}

WardIds == {1, 2, 3}

DistrictIds == {1}

MandalIds == {1, 2}

\* The location rows present when the election opens: both mandals lie in
\* district 1, village v lies in mandal v, wards 1 and 2 belong to village 1
\* and ward 3 to village 2.  NoId as parent: the row does not exist.
InitHierarchy ==
    [districts |-> DistrictIds,
     mandalDistrict |-> [m \in MandalIds |-> 1],
     villageMandal |-> [v \in VillageIds |-> v],
     wardVillage |-> [w \in WardIds |-> IF w = 3 THEN 2 ELSE 1]]

VARIABLES
    now,         \* timezone.now()
    elections,   \* Election table: id -> row
    candidates,  \* Candidate table: id -> row
    voters,      \* Voter table: set of rows [mobile_number, name]
    votes,       \* Vote table: bag of rows
    session,     \* per browser session: selected_village_id / selected_election_id
    pc,          \* per session: position of its voting request
    req,         \* per session: the view's and form's data of the request in flight
    resp,        \* per session: the response to its last POST /vote/
    probe,       \* last evaluation of a model property or validator
    hierarchy,   \* District, Mandal, Village and Ward tables
    siteSettings \* SiteSettings table: set of rows

vars == <<now, elections, candidates, voters, votes, session, pc, req, resp,
          probe, hierarchy, siteSettings>>

\* Ward.village of ward w (NoId: the ward does not exist).
WardVillage(w) == hierarchy.wardVillage[w]

ElectionIds == {1, 2, 3}

CandIds == 1..8

POSITION_SARPANCH == "SARPANCH"

POSITION_WARD_MEMBER == "WARD_MEMBER"

Positions == {POSITION_SARPANCH, POSITION_WARD_MEMBER}

\* Election rows: is_active, start_time, end_time.
InitElections ==
    [e \in ElectionIds |->
        CASE e = 1 -> [is_active |-> TRUE, start_time |-> 0, end_time |-> 2]
          [] e = 2 -> [is_active |-> TRUE, start_time |-> 2, end_time |-> 3]
          [] OTHER -> [is_active |-> FALSE, start_time |-> 3, end_time |-> 4]]

Cand(e, v, w, p, a) ==
    [election |-> e, village |-> v, ward |-> w, position_type |-> p,
     is_active |-> a]

\* Candidate rows present when the election opens.
InitCandidates ==
    [c \in CandIds |->
        CASE c = 1 -> Cand(1, 1, NoId, POSITION_SARPANCH, TRUE)
          [] c = 2 -> Cand(1, 1, NoId, POSITION_SARPANCH, TRUE)
          [] c = 3 -> Cand(1, 1, 1, POSITION_WARD_MEMBER, TRUE)
          [] c = 4 -> Cand(1, 2, NoId, POSITION_SARPANCH, TRUE)
          [] c = 5 -> Cand(1, 2, 3, POSITION_WARD_MEMBER, TRUE)
          [] c = 6 -> Cand(2, 1, NoId, POSITION_SARPANCH, TRUE)
          [] c = 7 -> Cand(2, 1, 1, POSITION_WARD_MEMBER, TRUE)
          [] OTHER -> Cand(1, 1, 2, POSITION_WARD_MEMBER, FALSE)]

(* ------------------------------------------------------------------ *)
(* Request inputs                                                      *)
(* ------------------------------------------------------------------ *)
Mobile1 == <<"9", "8", "7", "6", "5", "4", "3", "2", "1", "0">>

Mobile2 == <<"6", "1", "2", "3", "4", "5", "6", "7", "8", "9">>

MobileBad == <<"5", "1", "2", "3", "4", "5", "6", "7", "8", "9">>

\* Nine digits.
MobileShort == <<"9", "8", "7", "6", "5", "4", "3", "2", "1">>

\* Ten digits around a space.
MobileSpaced == <<"9", "8", "7", "6", "5", " ", "4", "3", "2", "1", "0">>

Mobiles == {Mobile1, Mobile2, MobileBad, MobileShort, MobileSpaced}

\* voter_name is optional.
VoterNames == {"", "Asha"}

FamilyCounts == {1, 21}

\* First entry of the X-Forwarded-For header ("" when the header is absent).
ForwardedFors == {"", "unknown"}

REMOTE_ADDR == "10.0.0.1"

\* Strings that are well-formed IPv4/IPv6 addresses.
WellFormedIps == {"10.0.0.1"}

Digits == {"0", "1", "2", "3", "4", "5", "6", "7", "8", "9"}

(* ------------------------------------------------------------------ *)
(* Pure functions of the models                                        *)
(* ------------------------------------------------------------------ *)
Max(a, b) == IF a >= b THEN a ELSE b

\* Election.status with the end instant excluded from the voting window.
StatusEndExclusive(el, t) ==
    IF ~el.is_active THEN "Inactive"
    ELSE IF t < el.start_time THEN "Upcoming"
    ELSE IF t >= el.end_time THEN "Ended"
    ELSE "Ongoing"

\* Election.status, evaluated at instant t.
Status(el, t) ==
    IF ~el.is_active THEN "Inactive"
    ELSE IF t < el.start_time THEN "Upcoming"
    ELSE IF t > el.end_time THEN "Ended"
    ELSE "Ongoing"

\* The filter of get_active_election without its start_time condition.
OngoingElectionsNoStart(els, t) ==
    {e \in DOMAIN els : els[e].is_active /\ els[e].end_time >= t}

\* The rows matched by the filter of get_active_election at instant t.
OngoingElections(els, t) ==
    {e \in DOMAIN els : /\ els[e].is_active
                        /\ els[e].start_time <= t
                        /\ els[e].end_time >= t}

\* get_active_election: first row of the filter under Election.Meta.ordering
\* (latest start_time first), None when the filter is empty.
GetActiveElection(els, t) ==
    LET on == OngoingElections(els, t) IN
    IF on = {} THEN NoId
    ELSE CHOOSE e \in on : \A f \in on : els[f].start_time <= els[e].start_time

NoError == [raised |-> "none", fields |-> {}]

FieldErrors(fs) == [raised |-> "ValidationError", fields |-> fs]

\* Candidate.clean on a candidate with the given position, ward and village
\* (NoId: not set).  Reading self.village of a candidate whose village is not
\* set raises RelatedObjectDoesNotExist (non-null foreign key).
CandidateClean(c) ==
    IF c.position_type = POSITION_SARPANCH
    THEN IF c.ward # NoId THEN FieldErrors({"ward"}) ELSE NoError
    ELSE IF c.position_type = POSITION_WARD_MEMBER
    THEN IF c.ward = NoId THEN FieldErrors({"ward"})
         ELSE IF c.village = NoId
              THEN [raised |-> "RelatedObjectDoesNotExist", fields |-> {}]
         ELSE IF WardVillage(c.ward) # c.village THEN FieldErrors({"ward"})
         ELSE NoError
    ELSE NoError

\* s[-n:] of Python.
LastChars(s, n) == SubSeq(s, Max(Len(s) - n + 1, 1), Len(s))

\* A masked form that keeps the leading digits instead of the trailing ones.
MaskedMobileFirst(m) == <<"*", "*", "*", "*", "*", "*">> \o SubSeq(m, 1, 4)

\* Voter.masked_mobile
MaskedMobile(m) == <<"*", "*", "*", "*", "*", "*">> \o LastChars(m, 4)

\* A validator that looks at the first character only.
MobileValidatorFirstDigit(m) == Len(m) > 0 /\ m[1] \in {"6", "7", "8", "9"}

\* mobile_validator: ^[6-9]\d{9}$
MobileValidator(m) ==
    /\ Len(m) = 10
    /\ m[1] \in {"6", "7", "8", "9"}
    /\ \A i \in 2..10 : m[i] \in Digits

\* The value VotingForm.clean_mobile_number returns: the digits of the input.
CleanedMobileNumber(m) == SelectSeq(m, LAMBDA ch : ch \in Digits)

\* VotingForm.clean_mobile_number: TRUE when no ValidationError is raised.
CleanMobileNumber(m) ==
    LET digits == SelectSeq(m, LAMBDA ch : ch \in Digits) IN
    \/ Len(m) = 0
    \/ /\ Len(digits) = 10
       /\ digits[1] \in {"6", "7", "8", "9"}

\* get_client_ip: first X-Forwarded-For entry, else REMOTE_ADDR.
GetClientIp(xff) == IF xff # "" THEN xff ELSE REMOTE_ADDR

(* ------------------------------------------------------------------ *)
(* VotingForm                                                          *)
(* ------------------------------------------------------------------ *)
\* Queryset of the sarpanch_candidate field.
SarpanchQueryset(cands, e, v) ==
    {c \in CandIds : /\ cands[c].election = e
                     /\ cands[c].village = v
                     /\ cands[c].position_type = POSITION_SARPANCH
                     /\ cands[c].is_active}

\* Queryset of the ward field.
WardQueryset(v) == {w \in WardIds : WardVillage(w) = v}

\* Queryset of the ward_member_candidate field, from the submitted ward id.
WardMemberQueryset(cands, e, wardId) ==
    IF wardId = NoId THEN {}
    ELSE {c \in CandIds : /\ cands[c].election = e
                          /\ cands[c].ward = wardId
                          /\ cands[c].position_type = POSITION_WARD_MEMBER
                          /\ cands[c].is_active}

\* Fields that fail their own validation (choice, required, range, format).
FormFieldErrors(cands, e, v, d) ==
    {f \in {"sarpanch_candidate", "ward", "ward_member_candidate",
            "mobile_number", "family_vote_count"} :
        CASE f = "sarpanch_candidate" ->
                d.sarpanch_candidate \notin SarpanchQueryset(cands, e, v)
          [] f = "ward" -> d.ward \notin WardQueryset(v)
          [] f = "ward_member_candidate" ->
                d.ward_member_candidate \notin WardMemberQueryset(cands, e, d.ward)
          [] f = "mobile_number" ->
                ~(MobileValidator(d.mobile_number) /\ CleanMobileNumber(d.mobile_number))
          [] OTHER -> ~(d.family_vote_count >= 1 /\ d.family_vote_count <= 20)}

\* Errors added by VotingForm.clean on the fields that passed.
FormCleanErrors(cands, e, v, d) ==
    LET bad == FormFieldErrors(cands, e, v, d)
        hasS == "sarpanch_candidate" \notin bad
        hasW == "ward" \notin bad
        hasM == "ward_member_candidate" \notin bad
        s == cands[d.sarpanch_candidate]
        m == cands[d.ward_member_candidate] IN
    {f \in {"sarpanch_candidate", "ward", "ward_member_candidate"} :
        CASE f = "sarpanch_candidate" ->
                hasS /\ (\/ s.position_type # POSITION_SARPANCH
                         \/ s.election # e
                         \/ s.village # v)
          [] f = "ward" -> hasW /\ WardVillage(d.ward) # v
          [] OTHER ->
                hasM /\ (\/ m.position_type # POSITION_WARD_MEMBER
                         \/ m.election # e
                         \/ (hasW /\ m.ward # d.ward))}

\* form.errors after is_valid()
FormErrors(cands, e, v, d) ==
    FormFieldErrors(cands, e, v, d) \cup FormCleanErrors(cands, e, v, d)

\* is_valid() that overlooks the errors of the ward_member_candidate field.
FormIsValidSkipWardMember(cands, e, v, d) ==
    FormErrors(cands, e, v, d) \ {"ward_member_candidate"} = {}

FormIsValid(cands, e, v, d) == FormErrors(cands, e, v, d) = {}

(* ------------------------------------------------------------------ *)
(* State                                                               *)
(* ------------------------------------------------------------------ *)
NoSnap == [id |-> NoId, election |-> NoId, village |-> NoId, ward |-> NoId,
           position_type |-> ""]

\* The in-memory Candidate instance the form's ModelChoiceField returns.
Snapshot(cands, c) ==
    [id |-> c, election |-> cands[c].election, village |-> cands[c].village,
     ward |-> cands[c].ward, position_type |-> cands[c].position_type]

NoReq == [election |-> NoId, village |-> NoId, ward |-> NoId,
          sarpanch_candidate |-> NoSnap, ward_member_candidate |-> NoSnap,
          mobile_number |-> <<>>, family_vote_count |-> 0, ip_address |-> ""]

NoSelection == [selected_village_id |-> NoId, selected_election_id |-> NoId]

Resp(k) == k

NoProbe == [op |-> "none", args |-> <<>>, done |-> FALSE, result |-> <<>>]

Init ==
    /\ now = 0
    /\ elections = InitElections
    /\ candidates = InitCandidates
    /\ voters = {}
    /\ votes = EmptyBag
    /\ session = [p \in Sessions |-> NoSelection]
    /\ pc = [p \in Sessions |-> "idle"]
    /\ req = [p \in Sessions |-> NoReq]
    /\ resp = [p \in Sessions |-> Resp("none")]
    /\ probe = NoProbe
    /\ hierarchy = InitHierarchy
    /\ siteSettings = {}

\* Number of voting requests being processed.
InFlight == Cardinality({p \in Sessions : pc[p] # "idle"})

\* The request of session p ends with response r.
Finish(p, r) ==
    /\ pc' = [pc EXCEPT ![p] = "idle"]
    /\ req' = [req EXCEPT ![p] = NoReq]
    /\ resp' = [resp EXCEPT ![p] = r]

(* ------------------------------------------------------------------ *)
(* Time                                                                *)
(* ------------------------------------------------------------------ *)
Tick ==
    /\ now + TickStep <= MaxTime
    /\ now' = now + TickStep
    /\ UNCHANGED <<elections, candidates, voters, votes, session, pc, req,
                   resp, probe, hierarchy, siteSettings>>

(* ------------------------------------------------------------------ *)
(* LocationSelectionView                                               *)
(* ------------------------------------------------------------------ *)
\* POST /select-location/ with a village of the hierarchy (NoId: none chosen).
\* Without an ongoing election, or with an invalid form, the session is left
\* as it was.
SelectLocation(p, v) ==
    LET e == GetActiveElection(elections, now) IN
    /\ pc[p] = "idle"
    /\ session' = IF e # NoId /\ v \in VillageIds
                  THEN [session EXCEPT ![p] = [selected_village_id |-> v,
                                               selected_election_id |-> e]]
                  ELSE session
    /\ UNCHANGED <<now, elections, candidates, voters, votes, pc, req, resp,
                   probe, hierarchy, siteSettings>>

(* ------------------------------------------------------------------ *)
(* VotingView                                                          *)
(* ------------------------------------------------------------------ *)
Post(s, w, m, mob, n) ==
    [sarpanch_candidate |-> s, ward |-> w, ward_member_candidate |-> m,
     mobile_number |-> mob, family_vote_count |-> n]

\* The submissions the sessions send.
PostData ==
    {Post(b[1], b[2], b[3], Mobile1, 1) :
        b \in {<<1, 1, 3>>, <<2, 1, 3>>, <<4, 3, 5>>, <<6, 1, 7>>,
               <<1, 2, 3>>, <<3, 1, 3>>}}
    \cup {Post(1, 1, 3, MobileBad, 1),
          Post(1, 1, 3, MobileShort, 1), Post(1, 1, 3, MobileSpaced, 1),
          Post(1, 1, 3, Mobile1, 21), Post(NoId, NoId, NoId, Mobile1, 1)}

\* POST /vote/ sent as request p with the cookie of browser session b:
\* dispatch, then post up to form.is_valid().
VotePostOf(b, p, d) ==
    LET e == GetActiveElection(elections, now)
        v == session[b].selected_village_id IN
    /\ pc[p] = "idle"
    /\ IF e = NoId
       THEN /\ resp' = [resp EXCEPT ![p] = Resp("no_election")]
            /\ UNCHANGED <<pc, req>>
       ELSE IF v = NoId
       THEN /\ resp' = [resp EXCEPT ![p] = Resp("no_location")]
            /\ UNCHANGED <<pc, req>>
       ELSE IF ~FormIsValid(candidates, e, v, d)
       THEN /\ resp' = [resp EXCEPT ![p] = Resp("form_invalid")]
            /\ UNCHANGED <<pc, req>>
       ELSE /\ BagCardinality(votes) + InFlight < MaxVotes
            /\ pc' = [pc EXCEPT ![p] = "process"]
            /\ req' = [req EXCEPT ![p] =
                          [election |-> e, village |-> v, ward |-> d.ward,
                           sarpanch_candidate |->
                               Snapshot(candidates, d.sarpanch_candidate),
                           ward_member_candidate |->
                               Snapshot(candidates, d.ward_member_candidate),
                           mobile_number |->
                               CleanedMobileNumber(d.mobile_number),
                           family_vote_count |-> d.family_vote_count,
                           ip_address |-> ""]]
            /\ resp' = [resp EXCEPT ![p] = Resp("none")]
    /\ UNCHANGED <<now, elections, candidates, voters, votes, session,
                   probe, hierarchy, siteSettings>>

\* POST /vote/ of browser session p, one request at a time.
VotePost(p, d) == VotePostOf(p, p, d)

\* The Voter rows the lookup of get_or_create(mobile_number=m) finds.
VoterRows(vs, m) == {x \in vs : x.mobile_number = m}

\* A Voter table without the unique constraint on mobile_number.
VoterUniqueViolationOff(vs, m) == FALSE

\* The unique constraint of Voter.mobile_number: TRUE when the INSERT of a
\* row with number m is refused with IntegrityError.
VoterUniqueViolation(vs, m) == \E x \in vs : x.mobile_number = m

\* The INSERT of get_or_create: a new row with the next id and no name.
InsertVoter(vs, m) ==
    vs \cup {[id |-> Cardinality(vs) + 1, mobile_number |-> m, name |-> ""]}

\* "if voter_name and (not voter.name or created): voter.name = ...; save()"
UpdateVoterName(vs, x, name, created) ==
    IF name # "" /\ (x.name = "" \/ created)
    THEN (vs \ {x}) \cup {[x EXCEPT !.name = name]}
    ELSE vs

\* An existence check that also filters on the chosen Sarpanch candidate.
ExistingVoteSameChoice(vs, r) ==
    \E x \in BagToSet(vs) : /\ x.election = r.election
                            /\ x.voter = r.mobile_number
                            /\ x.village = r.village
                            /\ x.sarpanch_candidate = r.sarpanch_candidate.id

\* The existence check of process_vote:
\* Vote.objects.filter(election, voter, village).exists()
ExistingVote(vs, r) ==
    \E x \in BagToSet(vs) : /\ x.election = r.election
                            /\ x.voter = r.mobile_number
                            /\ x.village = r.village

\* process_vote from the name update to the existence check, on the Voter
\* table vs left by get_or_create.
CheckExisting(p, vs, name, created) ==
    LET r == req[p]
        x == CHOOSE y \in vs : y.mobile_number = r.mobile_number IN
    /\ voters' = UpdateVoterName(vs, x, name, created)
    /\ IF ExistingVote(votes, r)
       THEN Finish(p, Resp("duplicate"))
       ELSE /\ pc' = [pc EXCEPT ![p] = "create"]
            /\ UNCHANGED <<req, resp>>

\* process_vote from the lookup of get_or_create; name is the form's
\* voter_name.  When the lookup finds no row, the INSERT follows as a step of
\* its own.
ProcessVote(p, name) ==
    LET r == req[p] IN
    /\ pc[p] = "process"
    /\ IF VoterRows(voters, r.mobile_number) # {}
       THEN CheckExisting(p, voters, name, FALSE)
       ELSE /\ pc' = [pc EXCEPT ![p] = "voter_insert"]
            /\ UNCHANGED <<voters, req, resp>>
    /\ UNCHANGED <<now, elections, candidates, votes, session,
                   probe, hierarchy, siteSettings>>

\* The INSERT of get_or_create: on IntegrityError the row stored meanwhile is
\* fetched (created = False).
VoterInsert(p, name) ==
    LET r == req[p] IN
    /\ pc[p] = "voter_insert"
    /\ IF VoterUniqueViolation(voters, r.mobile_number)
       THEN CheckExisting(p, voters, name, FALSE)
       ELSE CheckExisting(p, InsertVoter(voters, r.mobile_number), name, TRUE)
    /\ UNCHANGED <<now, elections, candidates, votes, session,
                   probe, hierarchy, siteSettings>>

\* Vote.clean on the instance being created.
VoteClean(r) ==
    LET s == r.sarpanch_candidate
        m == r.ward_member_candidate IN
    {f \in {"sarpanch_candidate", "ward_member_candidate"} :
        IF f = "sarpanch_candidate"
        THEN s.id # NoId /\ (\/ s.position_type # POSITION_SARPANCH
                             \/ s.election # r.election
                             \/ s.village # r.village)
        ELSE m.id # NoId /\ (\/ m.position_type # POSITION_WARD_MEMBER
                             \/ m.election # r.election
                             \/ (r.ward # NoId /\ m.ward # r.ward))}

\* Model.clean_fields on the instance: the fields whose validators reject.
VoteCleanFields(r) ==
    {f \in {"ip_address"} : r.ip_address # "" /\ r.ip_address \notin WellFormedIps}

\* Model.validate_unique for unique_together (election, voter, village).
VoteValidateUnique(vs, r) ==
    IF \E x \in BagToSet(vs) :
          <<x.election, x.voter, x.village>> =
              <<r.election, r.mobile_number, r.village>>
    THEN {"__all__"} ELSE {}

\* Vote.full_clean: the fields of the ValidationError it raises, if any.
VoteFullClean(vs, r) ==
    VoteCleanFields(r) \cup VoteClean(r) \cup VoteValidateUnique(vs, r)

\* Vote.objects.create(...) up to the full_clean of Vote.save; xff is the
\* first entry of the request's X-Forwarded-For header.
CreateFullClean(p, xff) ==
    LET r == [req[p] EXCEPT !.ip_address = GetClientIp(xff)] IN
    /\ pc[p] = "create"
    /\ IF VoteFullClean(votes, r) # {}
       THEN Finish(p, Resp("server_error"))
       ELSE /\ pc' = [pc EXCEPT ![p] = "insert"]
            /\ req' = [req EXCEPT ![p] = r]
            /\ UNCHANGED resp
    /\ UNCHANGED <<now, elections, candidates, voters, votes, session,
                   probe, hierarchy, siteSettings>>

\* The row Vote.objects.create stores.
VoteRow(r) ==
    [election |-> r.election, village |-> r.village, ward |-> r.ward,
     voter |-> r.mobile_number,
     sarpanch_candidate |-> r.sarpanch_candidate.id,
     ward_member_candidate |-> r.ward_member_candidate.id,
     family_vote_count |-> r.family_vote_count,
     ip_address |-> r.ip_address]

\* A Vote table without the unique_together constraint.
UniqueViolationOff(vs, row) == FALSE

\* The storage constraint of Vote.Meta.unique_together: TRUE when the
\* INSERT of the row is refused with IntegrityError.
UniqueViolation(vs, row) ==
    \E x \in BagToSet(vs) : /\ x.election = row.election
                            /\ x.voter = row.voter
                            /\ x.village = row.village

\* The INSERT of Vote.objects.create and the rest of process_vote, for
\* request p of browser session b.
CreateInsertOf(b, p) ==
    LET row == VoteRow(req[p]) IN
    /\ pc[p] = "insert"
    /\ IF UniqueViolation(votes, row)
       THEN /\ Finish(p, Resp("integrity_error"))
            /\ UNCHANGED <<votes, session>>
       ELSE /\ votes' = votes (+) SetToBag({row})
            /\ session' = [session EXCEPT ![b] = NoSelection]
            /\ Finish(p, Resp("success"))
    /\ UNCHANGED <<now, elections, candidates, voters, probe, hierarchy,
                   siteSettings>>

CreateInsert(p) == CreateInsertOf(p, p)

(* ------------------------------------------------------------------ *)
(* CandidateAdmin                                                      *)
(* ------------------------------------------------------------------ *)
\* The candidates and the values the administrator's change form carries.
EditableCands == {1}

EditElections == {1}

EditWards == {NoId}

\* Candidates whose row differs from the one present when the election opened.
Edited(cands) == {c \in CandIds : cands[c] # InitCandidates[c]}

\* The change form of the admin site saved for candidate c: Candidate.save
\* runs full_clean, and the row is written only when it raises nothing.
CandidateChange(c, e, v, w, pos) ==
    LET new == [candidates[c] EXCEPT !.election = e, !.village = v,
                                     !.ward = w, !.position_type = pos]
        after == IF CandidateClean(new) = NoError
                 THEN [candidates EXCEPT ![c] = new]
                 ELSE candidates IN
    /\ Cardinality(Edited(after)) <= MaxEdited
    /\ candidates' = after
    /\ UNCHANGED <<now, elections, voters, votes, session, pc, req, resp,
                   probe, hierarchy, siteSettings>>

Next ==
    \/ Tick
    \/ \E p \in Sessions, v \in VillageIds \cup {NoId} : SelectLocation(p, v)
    \/ \E p \in Sessions, d \in PostData : VotePost(p, d)
    \/ \E p \in Sessions, name \in VoterNames : ProcessVote(p, name)
    \/ \E p \in Sessions, name \in VoterNames : VoterInsert(p, name)
    \/ \E p \in Sessions, xff \in ForwardedFors : CreateFullClean(p, xff)
    \/ \E p \in Sessions : CreateInsert(p)
    \/ \E c \in EditableCands, e \in EditElections, v \in VillageIds,
          w \in EditWards, pos \in Positions :
          CandidateChange(c, e, v, w, pos)

Spec == Init /\ [][Next]_vars

(* ------------------------------------------------------------------ *)
(* Two requests of one browser session                                 *)
(* ------------------------------------------------------------------ *)
\* The browser session whose cookie both requests carry.
SharedSession == 1

\* The submissions sent with that cookie.
SharedPostData ==
    {Post(1, 1, 3, Mobile1, 1), Post(1, 1, 3, Mobile2, 1),
     Post(4, 3, 5, Mobile1, 1)}

\* Every request loads the session row at its start, so a second POST /vote/
\* of the browser can be dispatched while the first is being processed.  The
\* browser selects a location when its session holds none and none of its
\* requests is being processed, so that the session's last selection is the
\* only one a vote can consume.
NextShared ==
    \/ \E v \in VillageIds :
          /\ session[SharedSession] = NoSelection
          /\ \A p \in Sessions : pc[p] = "idle"
          /\ SelectLocation(SharedSession, v)
    \/ \E p \in Sessions, d \in SharedPostData : VotePostOf(SharedSession, p, d)
    \/ \E p \in Sessions, name \in VoterNames : ProcessVote(p, name)
    \/ \E p \in Sessions, name \in VoterNames : VoterInsert(p, name)
    \/ \E p \in Sessions, xff \in ForwardedFors : CreateFullClean(p, xff)
    \/ \E p \in Sessions : CreateInsertOf(SharedSession, p)

SpecShared == Init /\ [][NextShared]_vars

(* ------------------------------------------------------------------ *)
(* Evaluation of the model properties and validators on drawn inputs    *)
(* ------------------------------------------------------------------ *)
MOBILE_LENGTH == 10

ProbeDigits == {"7", "3"}

\* Election rows: any flag, any start and end instant.
StatusInputs ==
    [is_active : BOOLEAN, start_time : 0..MaxProbeTime,
     end_time : 0..MaxProbeTime, t : 0..MaxProbeTime]

\* Candidate instances: any position, ward and village (NoId: not set).
CandidateInputs ==
    [position_type : Positions, ward : WardIds \cup {NoId},
     village : VillageIds \cup {NoId}]

\* Mobile numbers of the stored length.
MobileInputs == [1..MOBILE_LENGTH -> ProbeDigits]

\* Bound forms: any election and village of the view, any choice per field.
FormInputs ==
    [election : ElectionIds, village : VillageIds,
     data : [sarpanch_candidate : CandIds \cup {NoId},
             ward : WardIds \cup {NoId},
             ward_member_candidate : CandIds \cup {NoId},
             mobile_number : Mobiles,
             family_vote_count : FamilyCounts]]

Pending(op, a) == [op |-> op, args |-> a, done |-> FALSE, result |-> <<>>]

InitPure ==
    /\ now = 0
    /\ elections = InitElections
    /\ candidates = InitCandidates
    /\ voters = {}
    /\ votes = EmptyBag
    /\ session = [p \in Sessions |-> NoSelection]
    /\ pc = [p \in Sessions |-> "idle"]
    /\ req = [p \in Sessions |-> NoReq]
    /\ resp = [p \in Sessions |-> Resp("none")]
    /\ hierarchy = InitHierarchy
    /\ siteSettings = {}
    /\ probe \in {Pending("status", a) : a \in StatusInputs}
            \cup {Pending("candidate_clean", a) : a \in CandidateInputs}
            \cup {Pending("masked_mobile", a) : a \in MobileInputs}
            \cup {Pending("voting_form", a) : a \in FormInputs}

Evaluated(r) ==
    /\ ~probe.done
    /\ probe' = [probe EXCEPT !.done = TRUE, !.result = r]
    /\ UNCHANGED <<now, elections, candidates, voters, votes, session, pc,
                   req, resp, hierarchy, siteSettings>>

\* Election.status of the drawn row at the drawn instant.
EvalStatus ==
    /\ probe.op = "status"
    /\ Evaluated(Status(probe.args, probe.args.t))

\* Candidate.clean of the drawn instance.
EvalCandidateClean ==
    /\ probe.op = "candidate_clean"
    /\ Evaluated(CandidateClean(probe.args))

\* Voter.masked_mobile of the drawn number.
EvalMaskedMobile ==
    /\ probe.op = "masked_mobile"
    /\ Evaluated(MaskedMobile(probe.args))

\* VotingForm(village, election, data).is_valid(): the fields in form.errors.
EvalVotingForm ==
    /\ probe.op = "voting_form"
    /\ Evaluated(FormErrors(candidates, probe.args.election,
                            probe.args.village, probe.args.data))

NextPure ==
    \/ EvalStatus
    \/ EvalCandidateClean
    \/ EvalMaskedMobile
    \/ EvalVotingForm

SpecPure == InitPure /\ [][NextPure]_vars

(* ------------------------------------------------------------------ *)
(* The admin site and the ORM: locations, candidates, site settings     *)
(* ------------------------------------------------------------------ *)
\* A Candidate row that does not exist (deleted).
NoCand == Cand(NoId, NoId, NoId, "", FALSE)

ExistingMandals(h) == {m \in MandalIds : h.mandalDistrict[m] # NoId}

ExistingVillages(h) == {v \in VillageIds : h.villageMandal[v] # NoId}

ExistingWards(h) == {w \in WardIds : h.wardVillage[w] # NoId}

ExistingCands(cands) == {c \in CandIds : cands[c] # NoCand}

\* Mandal.district, Village.mandal, Ward.village: on_delete=CASCADE.
MandalsOf(h, ds) == {m \in MandalIds : h.mandalDistrict[m] \in ds}

VillagesOf(h, ms) == {v \in VillageIds : h.villageMandal[v] \in ms}

WardsOf(h, vs) == {w \in WardIds : h.wardVillage[w] \in vs}

\* Candidate.village and Candidate.ward: on_delete=CASCADE.
CandidatesOf(cands, vs, ws) ==
    {c \in ExistingCands(cands) : cands[c].village \in vs \/ cands[c].ward \in ws}

\* A collector for which no Vote protects a candidate.
ProtectedOff(vts, cs) == FALSE

\* Vote.sarpanch_candidate and Vote.ward_member_candidate: on_delete=PROTECT.
\* TRUE when collecting the candidates cs raises ProtectedError.
Protected(vts, cs) ==
    \E x \in BagToSet(vts) :
        x.sarpanch_candidate \in cs \/ x.ward_member_candidate \in cs

\* The Vote table after the deletion of the villages vs and the wards ws:
\* Vote.village is on_delete=CASCADE and Vote.ward is on_delete=SET_NULL.
VotesAfterDelete(vts, vs, ws) ==
    SetToBag({[x EXCEPT !.ward = IF x.ward \in ws THEN NoId ELSE x.ward] :
                 x \in {y \in BagToSet(vts) : y.village \notin vs}})

\* The outcome of the delete() call op on the row with id target.
Outcome(op, target, r) ==
    [op |-> op, args |-> target, done |-> TRUE, result |-> r]

\* Model.delete() of the collected rows: districts ds, mandals ms, villages vs
\* and wards ws.  ProtectedError leaves every table as it was.
DeleteCollected(op, target, ds, ms, vs, ws) ==
    LET cs == CandidatesOf(candidates, vs, ws) IN
    /\ IF Protected(votes, cs)
       THEN /\ probe' = Outcome(op, target, "ProtectedError")
            /\ UNCHANGED <<hierarchy, candidates, votes>>
       ELSE /\ probe' = Outcome(op, target, "deleted")
            /\ hierarchy' =
                  [districts |-> hierarchy.districts \ ds,
                   mandalDistrict |->
                       [m \in MandalIds |-> IF m \in ms THEN NoId
                                            ELSE hierarchy.mandalDistrict[m]],
                   villageMandal |->
                       [v \in VillageIds |-> IF v \in vs THEN NoId
                                             ELSE hierarchy.villageMandal[v]],
                   wardVillage |->
                       [w \in WardIds |-> IF w \in ws THEN NoId
                                          ELSE hierarchy.wardVillage[w]]]
            /\ candidates' = [c \in CandIds |-> IF c \in cs THEN NoCand
                                                ELSE candidates[c]]
            /\ votes' = VotesAfterDelete(votes, vs, ws)
    /\ UNCHANGED <<now, elections, voters, session, pc, req, resp,
                   siteSettings>>

DeleteDistrict(d) ==
    LET ms == MandalsOf(hierarchy, {d})
        vs == VillagesOf(hierarchy, ms) IN
    /\ d \in hierarchy.districts
    /\ DeleteCollected("delete_district", d, {d}, ms, vs,
                       WardsOf(hierarchy, vs))

DeleteMandal(m) ==
    LET vs == VillagesOf(hierarchy, {m}) IN
    /\ m \in ExistingMandals(hierarchy)
    /\ DeleteCollected("delete_mandal", m, {}, {m}, vs,
                       WardsOf(hierarchy, vs))

DeleteVillage(v) ==
    /\ v \in ExistingVillages(hierarchy)
    /\ DeleteCollected("delete_village", v, {}, {}, {v},
                       WardsOf(hierarchy, {v}))

DeleteWard(w) ==
    /\ w \in ExistingWards(hierarchy)
    /\ DeleteCollected("delete_ward", w, {}, {}, {}, {w})

\* An Election row that does not exist (deleted).
NoElection == [is_active |-> FALSE, start_time |-> 0, end_time |-> 0]

ExistingElections(els) == {e \in ElectionIds : els[e] # NoElection}

\* Candidate.election: on_delete=CASCADE.
CandidatesOfElections(cands, es) ==
    {c \in ExistingCands(cands) : cands[c].election \in es}

\* Model.delete() of the collected rows: elections es and candidates cs.
\* Vote.election is on_delete=CASCADE; ProtectedError leaves every table as
\* it was.
DeleteElectionRows(op, target, es, cs) ==
    /\ IF Protected(votes, cs)
       THEN /\ probe' = Outcome(op, target, "ProtectedError")
            /\ UNCHANGED <<elections, candidates, votes>>
       ELSE /\ probe' = Outcome(op, target, "deleted")
            /\ elections' = [e \in ElectionIds |-> IF e \in es THEN NoElection
                                                    ELSE elections[e]]
            /\ candidates' = [c \in CandIds |-> IF c \in cs THEN NoCand
                                                ELSE candidates[c]]
            /\ votes' = SetToBag({x \in BagToSet(votes) : x.election \notin es})
    /\ UNCHANGED <<now, voters, session, pc, req, resp, hierarchy,
                   siteSettings>>

\* The candidates and the elections the administrator deletes.
AdminDeleteCands == {1, 2}

AdminDeleteElections == {1}

DeleteCandidate(c) ==
    /\ c \in ExistingCands(candidates)
    /\ DeleteElectionRows("delete_candidate", c, {}, {c})

DeleteElection(e) ==
    /\ e \in ExistingElections(elections)
    /\ DeleteElectionRows("delete_election", e, {e},
                          CandidatesOfElections(candidates, {e}))

\* manage.py create_sample_data --clear: Candidate.objects.all().delete()
\* comes first and ProtectedError ends the command; otherwise the Election,
\* Ward, Village, Mandal and District tables are emptied after it.
ClearSampleData ==
    /\ IF Protected(votes, ExistingCands(candidates))
       THEN /\ probe' = Outcome("create_sample_data", NoId, "ProtectedError")
            /\ UNCHANGED <<elections, candidates, votes, hierarchy>>
       ELSE /\ probe' = Outcome("create_sample_data", NoId, "deleted")
            /\ candidates' = [c \in CandIds |-> NoCand]
            /\ elections' = [e \in ElectionIds |-> NoElection]
            /\ votes' = EmptyBag
            /\ hierarchy' = [districts |-> {},
                             mandalDistrict |-> [m \in MandalIds |-> NoId],
                             villageMandal |-> [v \in VillageIds |-> NoId],
                             wardVillage |-> [w \in WardIds |-> NoId]]
    /\ UNCHANGED <<now, voters, session, pc, req, resp, siteSettings>>

\* The change form of WardAdmin saved with village v for ward w.
WardChange(w, v) ==
    /\ w \in ExistingWards(hierarchy)
    /\ v \in ExistingVillages(hierarchy)
    /\ hierarchy' = [hierarchy EXCEPT !.wardVillage[w] = v]
    /\ UNCHANGED <<now, elections, candidates, voters, votes, session, pc,
                   req, resp, probe, siteSettings>>

\* Primary keys an in-memory SiteSettings instance may carry (NoId: None).
SettingsPks == {NoId, 1, 2}

DEFAULT_SITE_NAME == "Local Elections"

SiteNames == {DEFAULT_SITE_NAME, "Gram Sabha"}

SettingsRow(pk, name) == [pk |-> pk, site_name |-> name]

\* A save that stores the instance under the key it carries.
SettingsSaveKeepPk(pk, name, force_insert) ==
    LET key == IF pk = NoId THEN Cardinality(siteSettings) + 1 ELSE pk IN
    /\ siteSettings' =
           IF force_insert /\ \E r \in siteSettings : r.pk = key
           THEN siteSettings
           ELSE {r \in siteSettings : r.pk # key}
                    \cup {SettingsRow(key, name)}
    /\ UNCHANGED <<now, elections, candidates, voters, votes, session, pc,
                   req, resp, probe, hierarchy>>

\* SiteSettings.save on an instance with the given key and name: the key is
\* set to 1, then the row is updated or inserted; with force_insert (create,
\* get_or_create) an existing row 1 refuses the INSERT with IntegrityError.
SettingsSave(pk, name, force_insert) ==
    /\ siteSettings' =
           IF force_insert /\ \E r \in siteSettings : r.pk = 1
           THEN siteSettings
           ELSE {r \in siteSettings : r.pk # 1} \cup {SettingsRow(1, name)}
    /\ UNCHANGED <<now, elections, candidates, voters, votes, session, pc,
                   req, resp, probe, hierarchy>>

\* SiteSettings.delete on an instance: does nothing.
SettingsDelete(pk) ==
    /\ siteSettings' = siteSettings
    /\ UNCHANGED <<now, elections, candidates, voters, votes, session, pc,
                   req, resp, probe, hierarchy>>

\* SiteSettings.get_settings: get_or_create(pk=1).
SettingsGet ==
    /\ siteSettings' =
           IF \E r \in siteSettings : r.pk = 1
           THEN siteSettings
           ELSE siteSettings \cup {SettingsRow(1, DEFAULT_SITE_NAME)}
    /\ UNCHANGED <<now, elections, candidates, voters, votes, session, pc,
                   req, resp, probe, hierarchy>>

(* ------------------------------------------------------------------ *)
(* VillageResultsView                                                  *)
(* ------------------------------------------------------------------ *)
\* Candidate.full_name values in ascending collation order.
Names == <<"Anil", "Bhanu", "Chandu", "Devi">>

\* Candidate.full_name of candidate c.
full_name(c) ==
    CASE c \in {1, 7} -> "Bhanu"
      [] c \in {2, 4, 6} -> "Anil"
      [] c \in {3, 5} -> "Chandu"
      [] OTHER -> "Devi"

\* QuerySet.count() of a filter that selects the rows rs of the table vts.
CountRows(vts, rs) ==
    IF rs = {} THEN 0 ELSE BagCardinality([x \in rs |-> CopiesIn(x, vts)])

\* Vote.objects.filter(election=election, village=village).count() taken
\* over every village.
TotalVotesAnyVillage(vts, e, v) ==
    CountRows(vts, {x \in BagToSet(vts) : x.election = e})

\* Vote.objects.filter(election=election, village=village).count()
TotalVotes(vts, e, v) ==
    CountRows(vts, {x \in BagToSet(vts) : x.election = e /\ x.village = v})

\* Count('sarpanch_votes', filter=Q(sarpanch_votes__election=election))
SarpanchVoteCount(vts, e, c) ==
    CountRows(vts, {x \in BagToSet(vts) :
                       x.sarpanch_candidate = c /\ x.election = e})

\* Count('ward_member_votes', filter=Q(ward_member_votes__election=election))
WardMemberVoteCount(vts, e, c) ==
    CountRows(vts, {x \in BagToSet(vts) :
                       x.ward_member_candidate = c /\ x.election = e})

\* Vote.objects.filter(ward=ward).count(): the votes of every election.
WardVotesAnyElection(vts, e, w) ==
    CountRows(vts, {x \in BagToSet(vts) : x.ward = w})

\* Vote.objects.filter(election=election, ward=ward).count()
WardVotes(vts, e, w) ==
    CountRows(vts, {x \in BagToSet(vts) : x.election = e /\ x.ward = w})

\* Candidate.objects.filter(election, village, position_type=SARPANCH)
SarpanchResultCands(cands, e, v) ==
    {c \in ExistingCands(cands) : /\ cands[c].election = e
                                  /\ cands[c].village = v
                                  /\ cands[c].position_type = POSITION_SARPANCH}

\* Candidate.objects.filter(election, ward, position_type=WARD_MEMBER)
WardResultCands(cands, e, w) ==
    {c \in ExistingCands(cands) : /\ cands[c].election = e
                                  /\ cands[c].ward = w
                                  /\ cands[c].position_type = POSITION_WARD_MEMBER}

ResultRow(c, n) == [candidate |-> c, vote_count |-> n]

\* .order_by('-vote_count') on a queryset of the candidates cs annotated with
\* the counts cnt: every listing of cs by descending count; the order of
\* candidates with equal counts is the database's choice.
OrderByVoteCount(cs, cnt) ==
    {[i \in DOMAIN s |-> ResultRow(s[i], cnt[s[i]])] :
        s \in {t \in [1..Cardinality(cs) -> cs] :
                  \A i, j \in 1..Cardinality(cs) :
                      i < j => (t[i] # t[j] /\ cnt[t[i]] >= cnt[t[j]])}}

\* Ward.objects.filter(village=village).order_by('number')
WardsByNumber(h, v) ==
    LET ws == WardsOf(h, {v}) IN
    CHOOSE s \in [1..Cardinality(ws) -> ws] :
        \A i, j \in 1..Cardinality(ws) : i < j => s[i] < s[j]

\* The election of the results page: get_active_election(), replaced by the
\* election_id query parameter when given (NoId: absent), and the latest
\* election with votes for the village when neither yields one.
ResultsElection(els, vts, t, v, election_id) ==
    LET withVotes == {e \in ExistingElections(els) :
                        \E x \in BagToSet(vts) : x.election = e /\ x.village = v}
    IN
    IF election_id # NoId THEN election_id
    ELSE IF GetActiveElection(els, t) # NoId THEN GetActiveElection(els, t)
    ELSE IF withVotes = {} THEN NoId
    ELSE CHOOSE e \in withVotes :
             \A f \in withVotes : els[f].start_time <= els[e].start_time

\* The candidate lists the view can build for the ward w.
WardCandidateLists(cands, vts, e, w) ==
    LET cs == WardResultCands(cands, e, w) IN
    OrderByVoteCount(cs, [c \in cs |-> WardMemberVoteCount(vts, e, c)])

\* The candidate lists the view can build for the wards ws, one per ward.
WardResults(cands, vts, e, ws) ==
    {r \in [DOMAIN ws -> UNION {WardCandidateLists(cands, vts, e, ws[i]) :
                                   i \in DOMAIN ws}] :
        \A i \in DOMAIN ws : r[i] \in WardCandidateLists(cands, vts, e, ws[i])}

\* GET of the results page of village v with query parameter election_id.
VillageResults(v, election_id) ==
    LET e == ResultsElection(elections, votes, now, v, election_id)
        ws == WardsByNumber(hierarchy, v)
        cs == SarpanchResultCands(candidates, e, v)
    IN
    /\ v \in ExistingVillages(hierarchy)
    /\ election_id # NoId => election_id \in ExistingElections(elections)
    /\ e # NoId
    /\ \E sr \in OrderByVoteCount(cs, [c \in cs |->
                                            SarpanchVoteCount(votes, e, c)]),
          wr \in WardResults(candidates, votes, e, ws) :
          probe' = [op |-> "village_results",
                    args |-> [village |-> v, election |-> e],
                    done |-> TRUE,
                    result |->
                        [total_votes |-> TotalVotes(votes, e, v),
                         sarpanch_results |-> sr,
                         ward_results |->
                             [i \in DOMAIN ws |->
                                 [ward |-> ws[i],
                                  candidates |-> wr[i],
                                  total_votes |-> WardVotes(votes, e, ws[i])]]]]
    /\ UNCHANGED <<now, elections, candidates, voters, votes, session, pc,
                   req, resp, hierarchy, siteSettings>>

\* Votes recorded before the administrator acts: Sarpanch candidate 1 and
\* Ward Member candidate 3 in village 1, ward 1; Sarpanch candidate 4 and Ward
\* Member candidate 5 in village 2, ward 3.
StoredVote(v, w, s, m) ==
    [election |-> 1, village |-> v, ward |-> w, voter |-> Mobile1,
     sarpanch_candidate |-> s, ward_member_candidate |-> m,
     family_vote_count |-> 1, ip_address |-> REMOTE_ADDR]

StoredVotes == {StoredVote(1, 1, 1, 3), StoredVote(2, 3, 4, 5)}

\* The candidates and the wards the administrator's change forms carry.
AdminEditCands == {1, 3}

AdminEditWards == {NoId, 1, 2}

InitAdmin ==
    /\ now = 0
    /\ elections = InitElections
    /\ candidates = InitCandidates
    /\ \E rows \in SUBSET StoredVotes :
          /\ votes = SetToBag(rows)
          /\ voters = IF rows = {} THEN {}
                      ELSE {[id |-> 1, mobile_number |-> Mobile1,
                             name |-> "Asha"]}
    /\ session = [p \in Sessions |-> NoSelection]
    /\ pc = [p \in Sessions |-> "idle"]
    /\ req = [p \in Sessions |-> NoReq]
    /\ resp = [p \in Sessions |-> Resp("none")]
    /\ probe = NoProbe
    /\ hierarchy = InitHierarchy
    /\ siteSettings = {}

NextAdmin ==
    \/ \E d \in DistrictIds : DeleteDistrict(d)
    \/ \E m \in MandalIds : DeleteMandal(m)
    \/ \E v \in VillageIds : DeleteVillage(v)
    \/ \E w \in WardIds : DeleteWard(w)
    \/ \E c \in AdminDeleteCands : DeleteCandidate(c)
    \/ \E e \in AdminDeleteElections : DeleteElection(e)
    \/ ClearSampleData
    \/ \E w \in WardIds, v \in VillageIds : WardChange(w, v)
    \/ \E c \in AdminEditCands \cap ExistingCands(candidates),
          e \in EditElections, v \in ExistingVillages(hierarchy),
          w \in AdminEditWards \cap (ExistingWards(hierarchy) \cup {NoId}),
          pos \in Positions :
          CandidateChange(c, e, v, w, pos)
    \/ \E pk \in SettingsPks, name \in SiteNames, fi \in BOOLEAN :
          SettingsSave(pk, name, fi)
    \/ \E pk \in SettingsPks : SettingsDelete(pk)
    \/ SettingsGet

SpecAdmin == InitAdmin /\ [][NextAdmin]_vars

\* The submissions sent while the administrator moves wards.
WardPostData ==
    {Post(b[1], b[2], b[3], Mobile1, 1) :
        b \in {<<1, 1, 3>>, <<4, 3, 5>>, <<4, 1, 3>>, <<1, 3, 5>>}}

\* One browser session votes while the administrator saves ward change forms.
NextWards ==
    \/ \E w \in WardIds, v \in VillageIds : WardChange(w, v)
    \/ \E v \in VillageIds : SelectLocation(1, v)
    \/ \E d \in WardPostData : VotePost(1, d)
    \/ \E name \in VoterNames : ProcessVote(1, name)
    \/ \E name \in VoterNames : VoterInsert(1, name)
    \/ \E xff \in ForwardedFors : CreateFullClean(1, xff)
    \/ CreateInsert(1)

SpecWards == InitAdmin /\ [][NextWards]_vars

\* The election_id query parameters of the results page.
ResultsElectionIds == {NoId, 1}

\* The results page read while the administrator edits candidates.
NextResults ==
    \/ \E c \in AdminEditCands \cap ExistingCands(candidates),
          e \in EditElections, v \in ExistingVillages(hierarchy),
          w \in AdminEditWards \cap (ExistingWards(hierarchy) \cup {NoId}),
          pos \in Positions :
          CandidateChange(c, e, v, w, pos)
    \/ \E v \in VillageIds, election_id \in ResultsElectionIds :
          VillageResults(v, election_id)

SpecResults == InitAdmin /\ [][NextResults]_vars

(* ------------------------------------------------------------------ *)
(* Properties                                                          *)
(* ------------------------------------------------------------------ *)
\* C1: under every interleaving of submissions, the Vote table holds at most
\* one row per (election, voter, village): no row is stored twice and no two
\* different rows agree on the three columns.
C1_OneVotePerKey ==
    \A x \in BagToSet(votes) :
        /\ CopiesIn(x, votes) = 1
        /\ \A y \in BagToSet(votes) :
              (x.election = y.election /\ x.voter = y.voter
                  /\ x.village = y.village) => x = y

\* A second submission of a key has passed the existence check and
\* full_clean, and reaches its INSERT after the first one's row was stored.
C1_Witness ==
    \E p \in Sessions :
        /\ pc[p] = "insert"
        /\ \E x \in BagToSet(votes) : /\ x.election = req[p].election
                                      /\ x.voter = req[p].mobile_number
                                      /\ x.village = req[p].village

\* C2: a submission that loses a race on (election, voter, village), i.e. one
\* that is past the existence check when the other submission's row appears,
\* ends with the duplicate-vote response of the sequential case and stores
\* nothing.
C2_RaceLoserGetsDuplicate ==
    [][\A p \in Sessions :
          (/\ pc[p] \in {"create", "insert"}
           /\ pc'[p] = "idle"
           /\ \E x \in BagToSet(votes) : /\ x.election = req[p].election
                                         /\ x.voter = req[p].mobile_number
                                         /\ x.village = req[p].village)
          => (resp'[p] = "duplicate" /\ votes' = votes)]_vars

\* C3: a submission evaluated while a Vote row exists for its mobile number,
\* election and village ends with the duplicate-vote response and the Vote
\* table is left as it was, whatever ward and candidates it carries.
C3_DuplicateRejected ==
    [][\A p \in Sessions :
          (/\ pc[p] = "process"
           /\ pc'[p] # "process"
           /\ \E x \in BagToSet(votes) : /\ x.election = req[p].election
                                         /\ x.voter = req[p].mobile_number
                                         /\ x.village = req[p].village)
          => (pc'[p] = "idle" /\ resp'[p] = "duplicate" /\ votes' = votes)]_vars

\* A submission was answered with the duplicate-vote response.
C3_Witness ==
    \E p \in Sessions :
        /\ pc[p] = "idle"
        /\ resp[p] = "duplicate"
        /\ BagCardinality(votes) = 1

\* C4: an accepted submission for whose key no Vote row exists is never
\* rejected: when its request ends, it ends in success with exactly one more
\* Vote row, which carries its key.
C4_FreshSubmissionSucceeds ==
    [][\A p \in Sessions :
          (/\ pc[p] \in {"process", "voter_insert", "create", "insert"}
           /\ pc'[p] = "idle"
           /\ ~\E x \in BagToSet(votes) : /\ x.election = req[p].election
                                          /\ x.voter = req[p].mobile_number
                                          /\ x.village = req[p].village)
          => (/\ resp'[p] = "success"
              /\ BagCardinality(votes') = BagCardinality(votes) + 1
              /\ \E x \in BagToSet(votes') :
                    /\ x.election = req[p].election
                    /\ x.voter = req[p].mobile_number
                    /\ x.village = req[p].village)]_vars

\* C5: a submission is taken up for recording only for an election whose
\* status is Ongoing at the instant the submission is evaluated, the election
\* of a request never changes afterwards, and a Vote row is only ever added by
\* such a request, for that election.
C5_OnlyOngoingElection ==
    [][/\ \A p \in Sessions :
             (pc[p] = "idle" /\ pc'[p] # "idle")
             => /\ req'[p].election \in ElectionIds
                /\ Status(elections[req'[p].election], now) = "Ongoing"
       /\ \A p \in Sessions :
             (pc[p] # "idle" /\ pc'[p] # "idle")
             => req'[p].election = req[p].election
       /\ votes' # votes
             => \E p \in Sessions :
                   /\ pc[p] = "insert"
                   /\ \E x \in BagToSet(votes') :
                         /\ x.election = req[p].election
                         /\ votes' = votes (+) SetToBag({x})]_vars

\* Votes were recorded for the first election and, once it had opened, for
\* the second one.
C5_Witness ==
    /\ \E x \in BagToSet(votes) : x.election = 1
    /\ \E x \in BagToSet(votes) : x.election = 2

\* C6: in every state, a submission whose Ward Member candidate belongs to a
\* ward other than the submitted ward fails form validation; hence every
\* request taken up for recording, and every Vote row, pairs a Ward Member
\* candidate with that candidate's own ward.
C6_WardMismatchRejected ==
    /\ \A p \in Sessions, w \in WardIds \cup {NoId}, m \in CandIds :
          LET e == GetActiveElection(elections, now)
              v == session[p].selected_village_id IN
          (e # NoId /\ v # NoId /\ candidates[m].ward # w)
          => ~FormIsValid(candidates, e, v, Post(1, w, m, Mobile1, 1))
    /\ \A p \in Sessions :
          pc[p] # "idle" => req[p].ward_member_candidate.ward = req[p].ward
    /\ \A x \in BagToSet(votes) :
          candidates[x.ward_member_candidate].ward = x.ward

\* A session with village 1 selected, during election 1, was answered with the
\* form's errors, and the submission of ward 2 with the candidate of ward 1 is
\* rejected on the ward_member_candidate field alone.
C6_Witness ==
    \E p \in Sessions :
        /\ pc[p] = "idle"
        /\ resp[p] = "form_invalid"
        /\ session[p].selected_village_id = 1
        /\ GetActiveElection(elections, now) = 1
        /\ candidates[1] = InitCandidates[1]
        /\ FormErrors(candidates, 1, 1, Post(1, 2, 3, Mobile1, 1))
               = {"ward_member_candidate"}

\* C7: Candidate.clean raises nothing exactly when the candidate is a Sarpanch
\* without ward, or a Ward Member with a ward of the candidate's village; for
\* every other position, ward and village (set or not) it raises a
\* ValidationError on the ward field.
C7_CandidateCleanRule ==
    (probe.op = "candidate_clean" /\ probe.done)
    => LET a == probe.args
           ok == \/ a.position_type = POSITION_SARPANCH /\ a.ward = NoId
                 \/ /\ a.position_type = POSITION_WARD_MEMBER
                    /\ a.ward # NoId
                    /\ WardVillage(a.ward) = a.village IN
       /\ ok => probe.result.raised = "none"
       /\ ~ok => (/\ probe.result.raised = "ValidationError"
                  /\ probe.result.fields = {"ward"})

\* C8: Election.status yields exactly one of four values: Inactive whenever
\* the flag is off, whatever the instants; with the flag on and a window whose
\* start does not follow its end, Upcoming before the start, Ended after the
\* end, and Ongoing from the start to the end, both included.
C8_StatusTotal ==
    (probe.op = "status" /\ probe.done)
    => LET a == probe.args
           r == probe.result IN
       /\ r \in {"Inactive", "Upcoming", "Ended", "Ongoing"}
       /\ ~a.is_active => r = "Inactive"
       /\ (a.is_active /\ a.start_time <= a.end_time)
          => /\ a.t < a.start_time => r = "Upcoming"
             /\ a.t > a.end_time => r = "Ended"
             /\ (a.start_time <= a.t /\ a.t <= a.end_time) => r = "Ongoing"

\* The status of an active election at its end instant, after its start.
C8_Witness ==
    /\ probe.op = "status"
    /\ probe.done
    /\ probe.args.is_active
    /\ probe.args.start_time < probe.args.end_time
    /\ probe.args.t = probe.args.end_time
    /\ probe.result = "Ongoing"

\* C9: the masked form of a stored mobile number is six asterisks followed by
\* the number's last four digits.
C9_MaskedMobile ==
    (probe.op = "masked_mobile" /\ probe.done)
    => LET m == probe.args
           r == probe.result IN
       /\ Len(r) = MOBILE_LENGTH
       /\ \A i \in 1..(MOBILE_LENGTH - 4) : r[i] = "*"
       /\ \A i \in 1..4 :
             r[MOBILE_LENGTH - 4 + i] = m[MOBILE_LENGTH - 4 + i]

\* A number whose last four digits differ from its first four was masked.
C9_Witness ==
    /\ probe.op = "masked_mobile"
    /\ probe.done
    /\ probe.args[1] = "7"
    /\ SubSeq(probe.args, 1, 4) # SubSeq(probe.args, 7, 10)
    /\ Len(probe.result) = MOBILE_LENGTH

\* C10: in every reachable state, the Sarpanch candidate of every Vote row has
\* position Sarpanch and the election and the village of the row.
C10_SarpanchCandidateConsistent ==
    \A x \in BagToSet(votes) :
        x.sarpanch_candidate # NoId
        => LET c == candidates[x.sarpanch_candidate] IN
           /\ c.position_type = POSITION_SARPANCH
           /\ c.election = x.election
           /\ c.village = x.village

\* C11: in every reachable state, the Ward Member candidate of every Vote row
\* has position Ward Member, the election of the row, and the ward of the row.
C11_WardMemberCandidateConsistent ==
    \A x \in BagToSet(votes) :
        x.ward_member_candidate # NoId
        => LET c == candidates[x.ward_member_candidate] IN
           /\ c.position_type = POSITION_WARD_MEMBER
           /\ c.election = x.election
           /\ c.ward = x.ward

\* C12: in every reachable state, every stored Candidate is a Sarpanch without
\* ward or a Ward Member whose ward belongs to the candidate's village.
C12_StoredCandidatesValid ==
    \A c \in ExistingCands(candidates) :
        \/ /\ candidates[c].position_type = POSITION_SARPANCH
           /\ candidates[c].ward = NoId
        \/ /\ candidates[c].position_type = POSITION_WARD_MEMBER
           /\ candidates[c].ward # NoId
           /\ hierarchy.wardVillage[candidates[c].ward] = candidates[c].village

\* C13: through every save, delete and get_settings, the SiteSettings table
\* holds at most one row and only under key 1; a row once stored is never
\* removed, delete leaves the table as it is, and after get_settings exactly
\* one row exists.
C13_SettingsSingleton ==
    [][/\ Cardinality(siteSettings') <= 1
       /\ \A r \in siteSettings' : r.pk = 1
       /\ siteSettings # {} => siteSettings' # {}
       /\ (\E pk \in SettingsPks : SettingsDelete(pk))
             => siteSettings' = siteSettings
       /\ SettingsGet => Cardinality(siteSettings') = 1]_vars

\* The single row, under key 1, carries a name given by a later save.
C13_Witness ==
    siteSettings = {SettingsRow(1, "Gram Sabha")}

\* C14: no step changes a field of a stored Vote row or removes the row while
\* its village exists (the removal of a village with its votes is the
\* privileged clean-up).
C14_VotesImmutable ==
    [][\A x \in BagToSet(votes) :
          \/ CopiesIn(x, votes') = CopiesIn(x, votes)
          \/ hierarchy'.villageMandal[x.village] = NoId]_vars

\* C15: a delete of a district, a mandal or a village is never refused, and
\* afterwards the row, its wards, and the candidates and votes of the deleted
\* villages are gone.
C15_CascadeDeleteSucceeds ==
    probe.op \in {"delete_district", "delete_mandal", "delete_village"}
    => /\ probe.result = "deleted"
       /\ probe.op = "delete_district" => probe.args \notin hierarchy.districts
       /\ probe.op = "delete_mandal"
             => hierarchy.mandalDistrict[probe.args] = NoId
       /\ probe.op = "delete_village"
             => hierarchy.villageMandal[probe.args] = NoId
       /\ \A v \in VillageIds :
             hierarchy.villageMandal[v] = NoId
             => /\ \A w \in WardIds : hierarchy.wardVillage[w] # v
                /\ \A c \in CandIds : candidates[c].village # v
                /\ \A x \in BagToSet(votes) : x.village # v

\* C16: a submission that ends without a recorded Vote because validation
\* failed leaves no Voter row behind: every stored Voter has a Vote row, or a
\* submission with its number is still being processed.
C16_NoPartialWrite ==
    \A x \in voters :
        \/ \E y \in BagToSet(votes) : y.voter = x.mobile_number
        \/ \E p \in Sessions :
              pc[p] # "idle" /\ req[p].mobile_number = x.mobile_number

\* C17: the step that rejects a submission as a duplicate vote leaves the
\* Voter table and the Vote table as they were.
C17_DuplicateLeavesStore ==
    [][\A p \in Sessions :
          (pc[p] # "idle" /\ pc'[p] = "idle" /\ resp'[p] = "duplicate")
          => (voters' = voters /\ votes' = votes)]_vars

\* C18: a step changes the Voter table only by inserting one row for a mobile
\* number that had no row; no stored Voter row changes.
C18_VoterOnlyInserted ==
    [][voters' # voters
          => \E y \in voters' :
                /\ voters' = voters \cup {y}
                /\ \A x \in voters : x.mobile_number # y.mobile_number]_vars

\* C19: under every interleaving there is at most one Voter row per mobile
\* number; a stored Voter row keeps its number, and a submission whose number
\* has a row adds no row.
C19_OneVoterPerMobile ==
    [][/\ \A x, y \in voters' : x.mobile_number = y.mobile_number => x = y
       /\ \A x \in voters :
             \E y \in voters' : y.id = x.id /\ y.mobile_number = x.mobile_number
       /\ \A p \in Sessions :
             (/\ pc[p] \in {"process", "voter_insert"}
              /\ pc'[p] # pc[p]
              /\ \E x \in voters : x.mobile_number = req[p].mobile_number)
             => Cardinality(voters') = Cardinality(voters)]_vars

\* A second submission of an unseen number has missed the lookup and reaches
\* its INSERT after the first one's Voter row was stored.
C19_Witness ==
    \E p \in Sessions :
        /\ pc[p] = "voter_insert"
        /\ \E x \in voters : x.mobile_number = req[p].mobile_number

C21_MetadataIndependent ==
    \A p \in Sessions :
        pc[p] = "create"
        => \A a, b \in ForwardedFors :
              (VoteFullClean(votes,
                             [req[p] EXCEPT !.ip_address = GetClientIp(a)]) = {})
              <=> (VoteFullClean(votes,
                                 [req[p] EXCEPT !.ip_address = GetClientIp(b)]) = {})

\* C26: the election of a submission taken up for recording is the election
\* the session stored with the village at location selection.
C26_SessionElectionUsed ==
    [][\A p \in Sessions :
          (pc[p] = "idle" /\ pc'[p] = "process")
          => req'[p].election = session[p].selected_election_id]_vars

\* C24: every Vote row that has a ward has a ward of the Vote's village.
C24_VoteWardInVillage ==
    \A x \in BagToSet(votes) :
        x.ward # NoId => WardVillage(x.ward) = x.village

\* C25: the Sarpanch candidate and the Ward Member candidate of every Vote row
\* exist, whatever the administrator and create_sample_data --clear delete.
C25_ReferencedCandidatesExist ==
    \A x \in BagToSet(votes) :
        /\ x.sarpanch_candidate \in ExistingCands(candidates)
        /\ x.ward_member_candidate \in ExistingCands(candidates)

\* The deletion of an election whose candidates are referenced by a Vote was
\* refused with ProtectedError.
C25_Witness ==
    /\ probe.op = "delete_election"
    /\ probe.result = "ProtectedError"
    /\ \E x \in BagToSet(votes) :
          candidates[x.sarpanch_candidate].election = probe.args

\* C22: the results list the Sarpanch candidates, and within each ward the
\* Ward Member candidates, by descending vote count, and candidates with
\* equal counts by ascending name.
C22_TiesOrderedByName ==
    LET NameIndex(c) == CHOOSE i \in DOMAIN Names : Names[i] = full_name(c)
        Ordered(rows) ==
            \A i, j \in DOMAIN rows :
                i < j => \/ rows[i].vote_count > rows[j].vote_count
                         \/ /\ rows[i].vote_count = rows[j].vote_count
                            /\ NameIndex(rows[i].candidate)
                                   <= NameIndex(rows[j].candidate)
    IN
    probe.op = "village_results"
    => /\ Ordered(probe.result.sarpanch_results)
       /\ \A i \in DOMAIN probe.result.ward_results :
              Ordered(probe.result.ward_results[i].candidates)

C29_TalliesAddUp ==
    LET RECURSIVE Sum(_)
        Sum(f) == IF DOMAIN f = {} THEN 0
                  ELSE LET a == CHOOSE a \in DOMAIN f : TRUE IN
                       f[a] + Sum([b \in DOMAIN f \ {a} |-> f[b]])
    IN
    candidates = InitCandidates
    => \A e \in ElectionIds, v \in VillageIds :
          /\ Sum([c \in SarpanchResultCands(candidates, e, v) |->
                     SarpanchVoteCount(votes, e, c)])
                 = TotalVotes(votes, e, v)
          /\ Sum([w \in WardsOf(hierarchy, {v}) |-> WardVotes(votes, e, w)])
                 = TotalVotes(votes, e, v)

\* Votes were recorded in ward 1 of village 1 for two elections.
C29_Witness ==
    /\ candidates = InitCandidates
    /\ WardVotes(votes, 1, 1) = 1
    /\ WardVotes(votes, 2, 1) = 1

\* C27: a request of a browser session records its Vote only while the
\* session holds a location selection that no earlier successful vote has
\* cleared, and the Vote's village is the selected village.
C27_SelectionUnconsumed ==
    [][\A p \in Sessions :
          (pc[p] = "insert" /\ pc'[p] = "idle" /\ resp'[p] = "success")
          => session[SharedSession].selected_village_id = req[p].village]_vars

\* C28: the Ward Member candidate of every Vote row is a candidate of the
\* Vote's village.
C28_WardMemberOfVillage ==
    \A x \in BagToSet(votes) :
        x.ward_member_candidate \in ExistingCands(candidates)
        => candidates[x.ward_member_candidate].village = x.village

====
